---- MODULE Spec2Model ----
(***************************************************************************)
(* Lexer and parser of mylang2 (src/src/lexer.rs, src/src/parser.rs).      *)
(*                                                                         *)
(* Source text is a sequence of bytes (0..255).  The lexer is the record   *)
(* [input, position, read_position, byte] of struct Lexer; indices are the *)
(* 0-based indices of the Rust code, so input.get(i) is input[i + 1].      *)
(* The parser is the record [tokens, position, read_position] of struct    *)
(* Parser.  A token is [kind, text, offset].  located is the outcome of    *)
(* the last get_row / get_column lookup.                                   *)
(***************************************************************************)
EXTENDS Integers, Sequences, FiniteSets, TLC

VARIABLES lexer, returned, parser, statements, result, pc, dispatched, source,
          located

vars == <<lexer, returned, parser, statements, result, pc, dispatched, source,
          located>>

(***************************************************************************)
(* Bounds of the model.                                                    *)
(***************************************************************************)
\* longest enumerated source text, in bytes
MaxLen == 3
\* next_token calls made after the input is exhausted
MaxRepeat == 1
\* most pieces (statements, broken statements, stray tokens) of a token sequence
MaxPieces == 2

(***************************************************************************)
(* Bytes the lexer compares against.                                       *)
(***************************************************************************)
NUL == 0
NEWLINE == 10
QUOTE == 34
HASH == 35

(***************************************************************************)
(* char::from(u8) maps a byte to the Latin-1 code point of the same value; *)
(* the predicates below are Rust's char predicates on code points 0..255.  *)
(***************************************************************************)
is_whitespace(b) == b \in 9..13 \/ b = 32 \/ b = 133 \/ b = 160

is_ascii_alphabetic(b) == b \in 65..90 \/ b \in 97..122

is_ascii_digit(b) == b \in 48..57

is_ascii_alphanumeric(b) == is_ascii_alphabetic(b) \/ is_ascii_digit(b)

is_alphanumeric(b) ==
    \/ is_ascii_alphanumeric(b)
    \/ b \in {170, 181, 186}
    \/ b \in 192..214 \/ b \in 216..246 \/ b \in 248..255
    \/ b \in {178, 179, 185, 188, 189, 190}

\* str::from_utf8(..).is_ok(): the byte sequence is well-formed UTF-8
RECURSIVE from_utf8_ok(_)
from_utf8_ok(s) ==
    LET n == Len(s)
        cont(i) == i <= n /\ s[i] \in 128..191
        rest(k) == from_utf8_ok(SubSeq(s, k + 1, n))
    IN  IF n = 0 THEN TRUE
        ELSE LET b == s[1] IN
             IF b < 128 THEN rest(1)
             ELSE IF b \in 194..223 THEN cont(2) /\ rest(2)
             ELSE IF b = 224 THEN n >= 2 /\ s[2] \in 160..191 /\ cont(3) /\ rest(3)
             ELSE IF b = 237 THEN n >= 2 /\ s[2] \in 128..159 /\ cont(3) /\ rest(3)
             ELSE IF b \in 225..239 THEN cont(2) /\ cont(3) /\ rest(3)
             ELSE IF b = 240 THEN n >= 2 /\ s[2] \in 144..191 /\ cont(3) /\ cont(4) /\ rest(4)
             ELSE IF b \in 241..243 THEN cont(2) /\ cont(3) /\ cont(4) /\ rest(4)
             ELSE IF b = 244 THEN n >= 2 /\ s[2] \in 128..143 /\ cont(3) /\ cont(4) /\ rest(4)
             ELSE FALSE

(***************************************************************************)
(* Tokens (crate::token).                                                  *)
(***************************************************************************)
Token(text, offset, kind) == [kind |-> kind, text |-> text, offset |-> offset]

end_of_file(offset) == Token(<<>>, offset, "EndOfFile")

\* "no token": the None of Option<Token>
NoToken == [kind |-> "None", text |-> <<>>, offset |-> 0]

\* the keyword table, text -> kind
KEYWORDS ==
    {  <<<<108, 101, 116>>, "Let">>,                          \* let
       <<<<109, 117, 116>>, "Mut">>,                          \* mut
       <<<<102, 110>>, "Fn">>,                                \* fn
       <<<<105, 110, 116, 49>>, "Int1">>,                     \* int1
       <<<<105, 110, 116, 50>>, "Int2">>,                     \* int2
       <<<<105, 110, 116, 52>>, "Int4">>,                     \* int4
       <<<<105, 110, 116, 56>>, "Int8">>,                     \* int8
       <<<<105, 110, 116, 49, 54>>, "Int16">>,                \* int16
       <<<<105, 110, 116, 51, 50>>, "Int32">>,                \* int32
       <<<<105, 110, 116, 54, 52>>, "Int64">>,                \* int64
       <<<<102, 108, 111, 97, 116, 49, 54>>, "Float16">>,     \* float16
       <<<<98, 102, 108, 111, 97, 116, 49, 54>>, "BFloat16">>,\* bfloat16
       <<<<102, 108, 111, 97, 116, 51, 50>>, "Float32">>,     \* float32
       <<<<102, 108, 111, 97, 116, 54, 52>>, "Float64">>  }   \* float64

KeywordKinds == {k[2] : k \in KEYWORDS}

is_keyword(text) == \E k \in KEYWORDS : k[1] = text

keyword_kind(text) == (CHOOSE k \in KEYWORDS : k[1] = text)[2]

(***************************************************************************)
(* Lexer: cursor primitives.                                               *)
(***************************************************************************)
\* Lexer::step
lexer_step(l) ==
    IF l.read_position >= Len(l.input)
    THEN [l EXCEPT !.byte = 0]
    ELSE [l EXCEPT !.position = l.read_position,
                   !.read_position = l.read_position + 1,
                   !.byte = l.input[l.read_position + 1]]

\* Lexer::reset
lexer_reset(l, position) ==
    [l EXCEPT !.position = position,
              !.read_position = position + 1,
              !.byte = IF position >= Len(l.input) THEN 0 ELSE l.input[position + 1]]

\* Lexer::new
lexer_new(input) ==
    lexer_step([input |-> input, position |-> 0, read_position |-> 0, byte |-> 0])

\* Lexer::char
char(l) == l.byte

\* Lexer::peek_char
peek_char(l) ==
    IF l.read_position >= Len(l.input) THEN 0 ELSE l.input[l.read_position + 1]

\* Lexer::text_range: &input[start..read_position]
text_range(l, start) == SubSeq(l.input, start + 1, l.read_position)

\* the bounds check of the slice &input[start..read_position]
slice_in_bounds(l, start) ==
    /\ start <= l.read_position
    /\ l.read_position <= Len(l.input)

\* what a rule yields when the slice is out of bounds: the call panics
PanicToken == [kind |-> "Panic", text |-> <<>>, offset |-> 0]

\* text_token with the lexer's position for the token's offset
text_token_at_position(l, start, kind) ==
    IF ~slice_in_bounds(l, start) THEN PanicToken
    ELSE Token(text_range(l, start), l.position, kind)

\* Lexer::text_token
text_token(l, start, kind) ==
    IF ~slice_in_bounds(l, start) THEN PanicToken
    ELSE Token(text_range(l, start), start, kind)

\* Lexer::char_token
char_token(l, kind) == text_token(l, l.position, kind)

\* result of a maybe_read_* rule: the token (or NoToken) and the lexer it leaves
Read(tok, l) == [tok |-> tok, lx |-> l]

(***************************************************************************)
(* Lexer: the token rules.                                                 *)
(***************************************************************************)
RECURSIVE whitespace_loop(_)
whitespace_loop(l) ==
    IF is_whitespace(peek_char(l)) THEN whitespace_loop(lexer_step(l)) ELSE l

maybe_read_whitespace(l) ==
    IF ~is_whitespace(char(l)) THEN Read(NoToken, l)
    ELSE LET start == l.position
             l2 == whitespace_loop(l)
         IN  Read(text_token(l2, start, "Whitespace"), l2)

RECURSIVE identifier_loop(_)
identifier_loop(l) ==
    IF is_ascii_alphanumeric(peek_char(l)) \/ peek_char(l) = 95
    THEN identifier_loop(lexer_step(l)) ELSE l

maybe_read_identifier(l) ==
    IF ~is_ascii_alphabetic(char(l)) THEN Read(NoToken, l)
    ELSE LET start == l.position
             l2 == identifier_loop(l)
         IN  Read(text_token(l2, start, "Identifier"), l2)

RECURSIVE keyword_loop(_)
keyword_loop(l) ==
    IF is_alphanumeric(peek_char(l)) THEN keyword_loop(lexer_step(l)) ELSE l

maybe_read_keyword(l) ==
    IF ~is_ascii_alphabetic(char(l)) THEN Read(NoToken, l)
    ELSE LET start == l.position
             l2 == keyword_loop(l)
             text == text_range(l2, start)
         IN  IF ~slice_in_bounds(l2, start) THEN Read(PanicToken, l2)
             ELSE IF from_utf8_ok(text)
             THEN IF is_keyword(text)
                  THEN Read(text_token(l2, start, keyword_kind(text)), l2)
                  ELSE Read(NoToken, lexer_reset(l2, start))
             ELSE Read(NoToken, lexer_reset(l2, start))

\* maybe_read_symbol without the look-ahead for '>' behind '-'
maybe_read_symbol_no_lookahead(l) ==
    LET c == char(l) IN
    IF c = 61 THEN Read(char_token(l, "EqualSign"), l)
    ELSE IF c = 58 THEN Read(char_token(l, "Colon"), l)
    ELSE IF c = 43 THEN Read(char_token(l, "Plus"), l)
    ELSE IF c = 45 THEN Read(char_token(l, "Minus"), l)
    ELSE IF c = 47 THEN Read(char_token(l, "Divide"), l)
    ELSE IF c = 42 THEN Read(char_token(l, "Star"), l)
    ELSE IF c = 40 THEN Read(char_token(l, "LeftParenthesis"), l)
    ELSE IF c = 41 THEN Read(char_token(l, "RightParenthesis"), l)
    ELSE IF c = 91 THEN Read(char_token(l, "LeftSquareBracket"), l)
    ELSE IF c = 93 THEN Read(char_token(l, "RightSquareBracket"), l)
    ELSE IF c = 123 THEN Read(char_token(l, "LeftBrace"), l)
    ELSE IF c = 125 THEN Read(char_token(l, "RightBrace"), l)
    ELSE Read(NoToken, l)

\* Lexer::maybe_read_symbol
maybe_read_symbol(l) ==
    LET c == char(l) IN
    IF c = 61 THEN Read(char_token(l, "EqualSign"), l)
    ELSE IF c = 58 THEN Read(char_token(l, "Colon"), l)
    ELSE IF c = 43 THEN Read(char_token(l, "Plus"), l)
    ELSE IF c = 45 THEN
        IF peek_char(l) = 62
        THEN LET start == l.position
                 l2 == lexer_step(l)
             IN  Read(text_token(l2, start, "Arrow"), l2)
        ELSE Read(char_token(l, "Minus"), l)
    ELSE IF c = 47 THEN Read(char_token(l, "Divide"), l)
    ELSE IF c = 42 THEN Read(char_token(l, "Star"), l)
    ELSE IF c = 40 THEN Read(char_token(l, "LeftParenthesis"), l)
    ELSE IF c = 41 THEN Read(char_token(l, "RightParenthesis"), l)
    ELSE IF c = 91 THEN Read(char_token(l, "LeftSquareBracket"), l)
    ELSE IF c = 93 THEN Read(char_token(l, "RightSquareBracket"), l)
    ELSE IF c = 123 THEN Read(char_token(l, "LeftBrace"), l)
    ELSE IF c = 125 THEN Read(char_token(l, "RightBrace"), l)
    ELSE Read(NoToken, l)

RECURSIVE integer_loop(_)
integer_loop(l) ==
    IF is_ascii_digit(peek_char(l)) THEN integer_loop(lexer_step(l)) ELSE l

maybe_read_integer(l) ==
    IF ~is_ascii_digit(char(l)) THEN Read(NoToken, l)
    ELSE LET start == l.position
             l2 == integer_loop(l)
         IN  Read(text_token(l2, start, "IntegerLiteral"), l2)

\* the while loop of maybe_read_string; ok = FALSE is the early return None
RECURSIVE string_loop(_, _)
string_loop(l, start) ==
    IF peek_char(l) # QUOTE
    THEN IF peek_char(l) = NUL
         THEN [ok |-> FALSE, lx |-> lexer_reset(l, start)]
         ELSE string_loop(lexer_step(l), start)
    ELSE [ok |-> TRUE, lx |-> l]

\* maybe_read_string taking the token text from the opening quote
maybe_read_string_from_quote(l) ==
    IF char(l) # QUOTE THEN Read(NoToken, l)
    ELSE LET start == l.position
             r == string_loop(lexer_step(l), start)
         IN  IF ~r.ok THEN Read(NoToken, r.lx)
             ELSE Read(text_token(r.lx, start, "String"), lexer_step(r.lx))

maybe_read_string(l) ==
    IF char(l) # QUOTE THEN Read(NoToken, l)
    ELSE LET start == l.position
             r == string_loop(lexer_step(l), start)
         IN  IF ~r.ok THEN Read(NoToken, r.lx)
             ELSE Read(text_token(r.lx, start + 1, "String"), lexer_step(r.lx))

\* the while loop of maybe_read_comment; ok = FALSE is the early return None
RECURSIVE comment_loop(_, _)
comment_loop(l, start) ==
    IF peek_char(l) # NEWLINE
    THEN LET l2 == lexer_step(l) IN
         IF peek_char(l2) = NUL
         THEN [ok |-> FALSE, lx |-> lexer_reset(l2, start)]
         ELSE comment_loop(l2, start)
    ELSE [ok |-> TRUE, lx |-> l]

maybe_read_comment(l) ==
    IF char(l) # HASH THEN Read(NoToken, l)
    ELSE LET start == l.position
             r == comment_loop(l, start)
         IN  IF ~r.ok THEN Read(NoToken, r.lx)
             ELSE Read(text_token(r.lx, start, "Comment"), lexer_step(r.lx))

\* the catch-all loop of read_token
RECURSIVE unknown_loop(_)
unknown_loop(l) == IF char(l) # NUL THEN unknown_loop(lexer_step(l)) ELSE l

\* Lexer::read_token
read_token(l) ==
    IF char(l) = NUL THEN Read(end_of_file(l.position), l)
    ELSE LET ws == maybe_read_whitespace(l) IN
    IF ws.tok # NoToken THEN ws
    ELSE LET co == maybe_read_comment(ws.lx) IN
    IF co.tok # NoToken THEN co
    ELSE LET sy == maybe_read_symbol(co.lx) IN
    IF sy.tok # NoToken THEN sy
    ELSE LET kw == maybe_read_keyword(sy.lx) IN
    IF kw.tok # NoToken THEN kw
    ELSE LET st == maybe_read_string(kw.lx) IN
    IF st.tok # NoToken THEN st
    ELSE LET nu == maybe_read_integer(st.lx) IN
    IF nu.tok # NoToken THEN nu
    ELSE LET id == maybe_read_identifier(nu.lx) IN
    IF id.tok # NoToken THEN id
    ELSE LET start == id.lx.position
             l2 == unknown_loop(id.lx)
         IN  Read(text_token(l2, start, "Unknown"), l2)

\* next_token without the step after read_token
next_token_no_step(l) == read_token(l)

\* Lexer::next_token
next_token(l) ==
    LET r == read_token(l) IN Read(r.tok, lexer_step(r.lx))

(***************************************************************************)
(* Lexer: row and column of a token.                                       *)
(***************************************************************************)
\* the two assertions that open get_row and get_column
lookup_asserts(l, tok) ==
    /\ tok.kind # "EndOfFile"
    /\ tok.offset <= Len(l.input)

\* the for loop of get_row over the first n bytes of input
RECURSIVE row_loop(_, _)
row_loop(input, n) ==
    IF n = 0 THEN 1
    ELSE row_loop(input, n - 1) + (IF input[n] = NEWLINE THEN 1 ELSE 0)

\* Lexer::get_row, once its assertions hold
get_row(l, tok) == row_loop(l.input, tok.offset)

\* the for loop of get_column: backwards from the n-th byte to a newline
RECURSIVE column_loop(_, _)
column_loop(input, n) ==
    IF n = 0 THEN 1
    ELSE IF input[n] = NEWLINE THEN 1
    ELSE 1 + column_loop(input, n - 1)

\* get_column counting from the start of the input
get_column_of_input(l, tok) == 1 + tok.offset

\* Lexer::get_column, once its assertions hold
get_column(l, tok) == column_loop(l.input, tok.offset)

(***************************************************************************)
(* AST (crate::ast), as the parser builds it.                              *)
(***************************************************************************)
Indentifier(name) == [node |-> "Identifier", name |-> name]

IntegerLiteral(text) == [node |-> "IntegerLiteral", text |-> text]

Type(name) == [name |-> name]

BinaryExpression(operator, left, right) ==
    [node |-> "BinaryExpression", operator |-> operator, left |-> left, right |-> right]

LetStatement(identifier, mutable, ttype, expression) ==
    [node |-> "Let", identifier |-> identifier, mutable |-> mutable,
     ttype |-> ttype, expression |-> expression]

ExpressionStatement(expression) == [node |-> "Expression", expression |-> expression]

FunctionDeclaration(identifier, ttype) ==
    [node |-> "FunctionDeclaration", identifier |-> identifier,
     parameters |-> <<>>, ttype |-> ttype]

NoStatement == [node |-> "None"]

(***************************************************************************)
(* Parser: cursor primitives.                                              *)
(***************************************************************************)
\* Parser::token
token(p) == p.tokens[p.position + 1]

\* the loop of Parser::step ignoring Comment tokens as well
RECURSIVE skip_whitespace_and_comments(_)
skip_whitespace_and_comments(p) ==
    IF token(p).kind \in {"Whitespace", "Comment"} /\ p.read_position < Len(p.tokens)
    THEN skip_whitespace_and_comments([p EXCEPT !.position = p.read_position,
                                                !.read_position = p.read_position + 1])
    ELSE p

\* the "Ignore whitespace" loop of Parser::step
RECURSIVE skip_whitespace(_)
skip_whitespace(p) ==
    IF token(p).kind = "Whitespace" /\ p.read_position < Len(p.tokens)
    THEN skip_whitespace([p EXCEPT !.position = p.read_position,
                                   !.read_position = p.read_position + 1])
    ELSE p

\* Parser::step without its "Ignore whitespace" loop
parser_step_no_skip(p) ==
    IF p.read_position >= Len(p.tokens) THEN p
    ELSE [p EXCEPT !.position = p.read_position,
                   !.read_position = p.read_position + 1]

\* Parser::step
parser_step(p) ==
    IF p.read_position >= Len(p.tokens) THEN p
    ELSE skip_whitespace([p EXCEPT !.position = p.read_position,
                                   !.read_position = p.read_position + 1])

\* reset that leaves the cursor where the failed rule stopped
parser_reset_nowhere(p, position) == p

\* reset that sets read_position to position as well
parser_reset_same(p, position) ==
    [p EXCEPT !.position = position, !.read_position = position]

\* Parser::reset
parser_reset(p, position) ==
    [p EXCEPT !.position = position, !.read_position = position + 1]

\* the assertions of Parser::new without the one on the last token
new_asserts_not_empty(tokens) == Len(tokens) > 0

\* the assertions of Parser::new
new_asserts(tokens) ==
    /\ Len(tokens) > 0
    /\ tokens[Len(tokens)].kind = "EndOfFile"

\* Parser::new without its call of step
parser_new_no_step(tokens) ==
    [tokens |-> tokens, position |-> 0, read_position |-> 0]

\* Parser::new, once its assertions hold
parser_new(tokens) ==
    parser_step([tokens |-> tokens, position |-> 0, read_position |-> 0])

(***************************************************************************)
(* Parser: grammar rules.  A rule returns Ok(statement) or Err(message);   *)
(* the message is format!("<message>{:?}", got).  px is the parser the     *)
(* rule leaves, rule the grammar rule that produced the result.  Where the *)
(* code formats self.token() after self.reset(start), got is the token at  *)
(* start.                                                                  *)
(***************************************************************************)
Ok(rule, stmt, p) ==
    [ok |-> TRUE, panic |-> FALSE, rule |-> rule, stmt |-> stmt,
     message |-> "", got |-> NoToken, px |-> p]

Err(rule, message, got, p) ==
    [ok |-> FALSE, panic |-> FALSE, rule |-> rule, stmt |-> NoStatement,
     message |-> message, got |-> got, px |-> p]

\* a failed assert!
Panic(rule, p) ==
    [ok |-> FALSE, panic |-> TRUE, rule |-> rule, stmt |-> NoStatement,
     message |-> "assertion failed", got |-> NoToken, px |-> p]

\* an IntegerLiteral expression built from every token
operand_integer_literal(t) == IntegerLiteral(t.text)

\* the initializer / operand expression built from a token
operand(t) ==
    IF t.kind = "Identifier" THEN Indentifier(t.text) ELSE IntegerLiteral(t.text)

\* the end of try_parse_let_stmt without the semicolon check
let_stmt_end_unchecked(p7, start, stmt) == Ok("let", stmt, parser_step(p7))

\* the end of try_parse_let_stmt: the semicolon check, then Ok(Let(..))
let_stmt_end(p7, start, stmt) ==
    IF token(p7).kind # "Semicolon"
    THEN Err("let", "Expected semicolon at end of statement, got ",
             token(parser_reset(p7, start)), parser_reset(p7, start))
    ELSE Ok("let", stmt, parser_step(p7))

try_parse_let_stmt(p0) ==
    IF token(p0).kind # "Let" THEN Panic("let", p0)
    ELSE
    LET start == p0.position
        p1 == parser_step(p0)
        mutable == token(p1).kind = "Mut"
        p2 == IF mutable THEN parser_step(p1) ELSE p1
        identifier_token == token(p2)
        p3 == parser_step(p2)
        colon == token(p3)
        p4 == parser_step(p3)
        ttype_token == token(p4)
        p5 == parser_step(p4)
        equals_token == token(p5)
        p6 == parser_step(p5)
        expression_token == token(p6)
        p7 == parser_step(p6)
    IN  IF identifier_token.kind # "Identifier"
        THEN Err("let", "Expected identifier, got ", identifier_token,
                 parser_reset(p2, start))
        ELSE IF colon.kind # "Colon"
        THEN Err("let", "Expected colon, got ", colon, parser_reset(p3, start))
        ELSE IF ttype_token.kind # "Int32"
        THEN Err("let", "Expected type, got ", colon, parser_reset(p4, start))
        ELSE IF equals_token.kind # "EqualSign"
        THEN Err("let", "Expected equals, got ", equals_token, parser_reset(p5, start))
        ELSE IF expression_token.kind \notin {"IntegerLiteral", "Identifier"}
        THEN Err("let", "Expected integer literal or identifier, got ",
                 expression_token, parser_reset(p6, start))
        ELSE let_stmt_end(p7, start,
                          LetStatement(Indentifier(identifier_token.text), mutable,
                                       Type("int32"), operand(expression_token)))

\* BinaryOperator::Plus for every operator token
binary_operator_plus(kind) == "Plus"

\* Kind -> ast::BinaryOperator (the match on op_token.kind())
binary_operator(kind) ==
    CASE kind = "Plus" -> "Plus"
      [] kind = "Minus" -> "Minus"
      [] kind = "Star" -> "Star"
      [] kind = "Divide" -> "Divide"

try_parse_binary_expression(p0) ==
    LET start == p0.position
        left_token == token(p0)
        p1 == parser_step(p0)
        op_token == token(p1)
        p2 == parser_step(p1)
        right_token == token(p2)
        p3 == parser_step(p2)
        p4 == parser_step(p3)
    IN  IF left_token.kind \notin {"Identifier", "IntegerLiteral"}
        THEN Err("binary", "Expected identifier, got ", left_token,
                 parser_reset(p0, start))
        ELSE IF op_token.kind \notin {"Plus", "Minus", "Star", "Divide"}
        THEN Err("binary", "Expected '+', got ", op_token, parser_reset(p1, start))
        ELSE IF right_token.kind \notin {"Identifier", "IntegerLiteral"}
        THEN Err("binary", "Expected identifier, got ", right_token,
                 parser_reset(p2, start))
        ELSE IF token(p3).kind # "Semicolon"
        THEN Err("binary", "Expected semicolon at end of binary expression, got ",
                 token(parser_reset(p3, start)), parser_reset(p3, start))
        ELSE Ok("binary",
                ExpressionStatement(
                    BinaryExpression(binary_operator(op_token.kind),
                                     operand(left_token), operand(right_token))),
                p4)

\* try_parse_function taking every type keyword for the return type
try_parse_function_any_type(p0) ==
    IF token(p0).kind # "Fn" THEN Panic("function", p0)
    ELSE
    LET start == p0.position
        p1 == parser_step(p0)
        identifier_token == token(p1)
        p2 == parser_step(p1)
        p3 == parser_step(p2)
        p4 == parser_step(p3)
        p5 == parser_step(p4)
        p6 == parser_step(p5)
        p7 == parser_step(p6)
    IN  IF identifier_token.kind # "Identifier"
        THEN Err("function", "Expected identifier, got ", identifier_token,
                 parser_reset(p1, start))
        ELSE IF token(p2).kind # "LeftParenthesis"
        THEN Err("function", "Expected '(', got ", token(parser_reset(p2, start)),
                 parser_reset(p2, start))
        ELSE IF token(p3).kind # "RightParenthesis"
        THEN Err("function", "Expected ')', got ", token(parser_reset(p3, start)),
                 parser_reset(p3, start))
        ELSE IF token(p4).kind # "Arrow"
        THEN Err("function", "Expected '->', got ", token(parser_reset(p4, start)),
                 parser_reset(p4, start))
        ELSE IF token(p5).kind \notin KeywordKinds \ {"Let", "Mut", "Fn"}
        THEN Err("function", "Expected 'int32', got ", token(parser_reset(p5, start)),
                 parser_reset(p5, start))
        ELSE IF token(p6).kind # "Semicolon"
        THEN Err("function", "Expected semicolon at end of binary expression, got ",
                 token(parser_reset(p6, start)), parser_reset(p6, start))
        ELSE Ok("function",
                FunctionDeclaration(Indentifier(identifier_token.text), Type("int32")),
                p7)

try_parse_function(p0) ==
    IF token(p0).kind # "Fn" THEN Panic("function", p0)
    ELSE
    LET start == p0.position
        p1 == parser_step(p0)
        identifier_token == token(p1)
        p2 == parser_step(p1)
        p3 == parser_step(p2)
        p4 == parser_step(p3)
        p5 == parser_step(p4)
        p6 == parser_step(p5)
        p7 == parser_step(p6)
    IN  IF identifier_token.kind # "Identifier"
        THEN Err("function", "Expected identifier, got ", identifier_token,
                 parser_reset(p1, start))
        ELSE IF token(p2).kind # "LeftParenthesis"
        THEN Err("function", "Expected '(', got ", token(parser_reset(p2, start)),
                 parser_reset(p2, start))
        ELSE IF token(p3).kind # "RightParenthesis"
        THEN Err("function", "Expected ')', got ", token(parser_reset(p3, start)),
                 parser_reset(p3, start))
        ELSE IF token(p4).kind # "Arrow"
        THEN Err("function", "Expected '->', got ", token(parser_reset(p4, start)),
                 parser_reset(p4, start))
        ELSE IF token(p5).kind # "Int32"
        THEN Err("function", "Expected 'int32', got ", token(parser_reset(p5, start)),
                 parser_reset(p5, start))
        ELSE IF token(p6).kind # "Semicolon"
        THEN Err("function", "Expected semicolon at end of binary expression, got ",
                 token(parser_reset(p6, start)), parser_reset(p6, start))
        ELSE Ok("function",
                FunctionDeclaration(Indentifier(identifier_token.text), Type("int32")),
                p7)

\* Parser::read_statement
read_statement(p) ==
    LET kind == token(p).kind IN
    IF kind = "Let" THEN try_parse_let_stmt(p)
    ELSE IF kind = "Identifier" THEN try_parse_binary_expression(p)
    ELSE IF kind = "IntegerLiteral" THEN try_parse_binary_expression(p)
    ELSE IF kind = "Fn" THEN try_parse_function(p)
    ELSE Err("none", "Failed to parse token ", token(p), p)

\* a next_stmt that hands the statement back with the cursor where the
\* statement began
next_stmt_rewinds(p) ==
    LET stmt == read_statement(p) IN
    IF stmt.ok THEN [stmt EXCEPT !.px = parser_reset(stmt.px, p.position)] ELSE stmt

\* Parser::next_stmt
next_stmt(p) ==
    LET stmt == read_statement(p) IN
    IF stmt.ok THEN [stmt EXCEPT !.px = parser_step(stmt.px)] ELSE stmt

(***************************************************************************)
(* Source texts.                                                           *)
(***************************************************************************)
\* bytes of the enumerated texts: NUL, newline, space, '"', '#', '-', '>',
\* '5', '_', 'f', 'n' and the two bytes of U+00E9
Alphabet == {0, 10, 32, 34, 35, 45, 62, 53, 95, 102, 110, 195, 169}

\* a &str is well-formed UTF-8
BoundedInputs ==
    {s \in UNION {[1..n -> Alphabet] : n \in 0..MaxLen} : from_utf8_ok(s)}

FnFive == <<102, 110, 32, 102, 105, 118, 101, 40, 41, 32, 45, 62, 32,
            105, 110, 116, 51, 50, 59>>          \* fn five() -> int32;
LetMutXY == <<108, 101, 116, 32, 109, 117, 116, 32, 120, 58, 32,
              105, 110, 116, 51, 50, 32, 61, 32, 121, 59>>  \* let mut x: int32 = y;
TwoPlusFour == <<50, 32, 43, 32, 52, 59>>        \* 2 + 4;
LetNoSemicolon == <<108, 101, 116, 32, 120, 58, 32, 105, 110, 116, 51, 50,
                    32, 61, 32, 53>>             \* let x: int32 = 5
TextInt3 == <<105, 110, 116, 51>>                \* int3
TextInt32x == <<105, 110, 116, 51, 50, 120>>     \* int32x
TextInt32_x == <<105, 110, 116, 51, 50, 95, 120>> \* int32_x
TextComment == <<35, 32, 99, 10>>                \* "# c\n"
TextStringFive == <<34, 102, 105, 118, 101, 34>> \* "five" in quotes
TextOops == <<34, 111, 111, 112, 115>>           \* "oops, unterminated

TextLetString == <<108, 101, 116, 32, 120, 58, 32, 105, 110, 116, 54, 52, 32,
                   61, 32, 34, 102, 105, 118, 101, 34>>  \* let x: int64 = "five"
\* "x = 5\n\ny\n" and a string literal that opens a line: "x\n" then "five"
\* in quotes
TextRows == <<120, 32, 61, 32, 53, 10, 10, 121, 10>>
TextStringRow == <<120, 10, 34, 102, 105, 118, 101, 34>>

ScenarioInputs ==
    {FnFive, LetMutXY, TwoPlusFour, LetNoSemicolon, TextInt3, TextInt32x,
     TextInt32_x, TextComment, TextStringFive, TextOops, TextLetString,
     TextRows, TextStringRow}

Inputs == BoundedInputs \cup ScenarioInputs

(***************************************************************************)
(* Parser state while only the lexer runs.                                 *)
(***************************************************************************)
ParserIdle == [tokens |-> <<>>, position |-> 0, read_position |-> 0]

NoResult == [status |-> "none"]

\* no get_row / get_column lookup was made
NoLookup == [status |-> "none"]

(***************************************************************************)
(* Lexing: repeated next_token calls on one lexer.                         *)
(***************************************************************************)
InitLexer(inputs) ==
    /\ lexer \in {lexer_new(input) : input \in inputs}
    /\ returned = <<>>
    /\ parser = ParserIdle
    /\ statements = <<>>
    /\ result = NoResult
    /\ pc = "lexing"
    /\ dispatched = "none"
    /\ source = <<>>
    /\ located = NoLookup

Init == InitLexer(Inputs)

\* one call of next_token; the token it returns is appended to returned
LexStep ==
    LET r == next_token(lexer) IN
    /\ lexer' = r.lx
    /\ returned' = Append(returned, r.tok)

NextToken ==
    /\ pc = "lexing"
    /\ Len(returned) < Len(lexer.input) + 1 + MaxRepeat
    /\ LexStep
    /\ UNCHANGED <<parser, statements, result, pc, dispatched, source, located>>

\* lexer.get_row(&token) and lexer.get_column(&token) for a token the lexer
\* returned; a failed assertion ends the program
GetRowColumn ==
    /\ pc = "lexing"
    /\ \E i \in 1..Len(returned) :
          LET tok == returned[i] IN
          IF lookup_asserts(lexer, tok)
          THEN /\ located' = [status |-> "Ok", token |-> tok,
                              row |-> get_row(lexer, tok),
                              column |-> get_column(lexer, tok)]
               /\ pc' = pc
          ELSE /\ located' = [status |-> "Panic", token |-> tok]
               /\ pc' = "panic"
    /\ UNCHANGED <<lexer, returned, parser, statements, result, dispatched, source>>

Next == NextToken \/ GetRowColumn

Spec == Init /\ [][Next]_vars

(***************************************************************************)
(* Token sequences handed to the parser.  A sequence is made of pieces: a  *)
(* well-formed statement (with the AST it denotes), a statement with one   *)
(* token dropped or replaced, or a stray token.                            *)
(***************************************************************************)
Tk(kind, text) == Token(text, 0, kind)

TkLet == Tk("Let", <<108, 101, 116>>)
TkMut == Tk("Mut", <<109, 117, 116>>)
TkFn == Tk("Fn", <<102, 110>>)
TkInt32 == Tk("Int32", <<105, 110, 116, 51, 50>>)
TkInt64 == Tk("Int64", <<105, 110, 116, 54, 52>>)
TkColon == Tk("Colon", <<58>>)
TkEqual == Tk("EqualSign", <<61>>)
TkSemicolon == Tk("Semicolon", <<59>>)
TkLeftParen == Tk("LeftParenthesis", <<40>>)
TkRightParen == Tk("RightParenthesis", <<41>>)
TkArrow == Tk("Arrow", <<45, 62>>)
TkPlus == Tk("Plus", <<43>>)
TkMinus == Tk("Minus", <<45>>)
TkStar == Tk("Star", <<42>>)
TkDivide == Tk("Divide", <<47>>)
TkX == Tk("Identifier", <<120>>)
TkY == Tk("Identifier", <<121>>)
TkFive == Tk("Identifier", <<102, 105, 118, 101>>)
Tk2 == Tk("IntegerLiteral", <<50>>)
Tk4 == Tk("IntegerLiteral", <<52>>)
TkComment == Tk("Comment", <<35, 32, 99>>)
TkUnknown == Tk("Unknown", <<59>>)
TkWhitespace == Tk("Whitespace", <<32>>)
TkString == Tk("String", <<102, 105, 118, 101>>)

\* the type keywords other than int32
TypeKeywordTokens ==
    {Tk(k[2], k[1]) : k \in {kw \in KEYWORDS : kw[2] \notin {"Let", "Mut", "Fn", "Int32"}}}

Piece(toks, ast) == [toks |-> toks, ast |-> ast]

\* let [mut] name : int32 = init ;
LetPiece(mutable, name, init) ==
    Piece(<<TkLet>> \o (IF mutable THEN <<TkMut>> ELSE <<>>)
              \o <<name, TkColon, TkInt32, TkEqual, init, TkSemicolon>>,
          [node |-> "Let", identifier |-> [node |-> "Identifier", name |-> name.text],
           mutable |-> mutable, ttype |-> [name |-> "int32"],
           expression |-> IF init.kind = "Identifier"
                          THEN [node |-> "Identifier", name |-> init.text]
                          ELSE [node |-> "IntegerLiteral", text |-> init.text]])

ExprOf(t) ==
    IF t.kind = "Identifier" THEN [node |-> "Identifier", name |-> t.text]
    ELSE [node |-> "IntegerLiteral", text |-> t.text]

\* left op right ;
BinPiece(left, op, right) ==
    Piece(<<left, op, right, TkSemicolon>>,
          [node |-> "Expression",
           expression |-> [node |-> "BinaryExpression", operator |-> op.kind,
                           left |-> ExprOf(left), right |-> ExprOf(right)]])

\* fn name ( ) -> int32 ;
FnPiece(name) ==
    Piece(<<TkFn, name, TkLeftParen, TkRightParen, TkArrow, TkInt32, TkSemicolon>>,
          [node |-> "FunctionDeclaration",
           identifier |-> [node |-> "Identifier", name |-> name.text],
           parameters |-> <<>>, ttype |-> [name |-> "int32"]])

WellFormedPieces ==
    {LetPiece(TRUE, TkX, TkY), LetPiece(FALSE, TkX, Tk4),
     BinPiece(TkX, TkPlus, TkY), BinPiece(Tk2, TkMinus, Tk4),
     BinPiece(TkX, TkStar, Tk4), BinPiece(Tk2, TkDivide, TkY),
     FnPiece(TkFive)}

Drop(toks, i) == SubSeq(toks, 1, i - 1) \o SubSeq(toks, i + 1, Len(toks))

Replace(toks, i, t) == [toks EXCEPT ![i] = t]

\* the statements that are broken at each of their tokens
BrokenBases == {LetPiece(FALSE, TkX, Tk4), BinPiece(TkX, TkPlus, TkY), FnPiece(TkFive)}

BrokenPieces ==
    UNION {
        {Piece(Drop(b.toks, i), NoStatement) : i \in 1..Len(b.toks)}
        \cup {Piece(Replace(b.toks, i, TkComment), NoStatement) : i \in 1..Len(b.toks)}
        \cup {Piece(Replace(b.toks, i, t), NoStatement) :
                  i \in {j \in 1..Len(b.toks) : b.toks[j].kind = "Int32"},
                  t \in TypeKeywordTokens}
        : b \in BrokenBases}

\* a let statement whose initializer is a String token or an operator, a
\* function declaration with a parameter, and the operator chain x + y + 4;
OtherPieces ==
    {Piece(Replace(LetPiece(TRUE, TkX, TkY).toks, 7, t), NoStatement) :
        t \in {TkString, TkPlus}}
    \cup {Piece(<<TkFn, TkFive, TkLeftParen, TkX, TkRightParen, TkArrow, TkInt32,
                  TkSemicolon>>, NoStatement),
          Piece(<<TkX, TkPlus, TkY, TkPlus, Tk4, TkSemicolon>>, NoStatement)}

StrayPieces ==
    {Piece(<<t>>, NoStatement) :
        t \in {TkUnknown, TkComment, TkSemicolon, TkY, TkWhitespace}}

Insert(toks, i, t) == SubSeq(toks, 1, i) \o <<t>> \o SubSeq(toks, i + 1, Len(toks))

\* the statements with a Comment token between two of their tokens
CommentedPieces ==
    {Piece(Insert(b.toks, i, TkComment), NoStatement) :
        i \in 1..6, b \in {LetPiece(TRUE, TkX, TkY), FnPiece(TkFive)}}
    \cup {Piece(Insert(BinPiece(Tk2, TkDivide, TkY).toks, i, TkComment), NoStatement) :
              i \in 1..3}
    \cup {Piece(Insert(LetPiece(TRUE, TkX, TkY).toks, 7, TkComment), NoStatement)}

Pieces ==
    WellFormedPieces \cup BrokenPieces \cup OtherPieces \cup CommentedPieces
    \cup StrayPieces

\* pieces that follow the first piece of a token sequence
FollowPieces ==
    WellFormedPieces \cup StrayPieces \cup OtherPieces
    \cup {Piece(Drop(b.toks, i), NoStatement) : i \in 1..2, b \in BrokenBases}

Sources ==
    {src \in UNION {[1..n -> Pieces] : n \in 0..MaxPieces} :
        \A i \in 2..Len(src) : src[i] \in FollowPieces}

RECURSIVE Flatten(_)
Flatten(src) ==
    IF src = <<>> THEN <<>> ELSE src[1].toks \o Flatten(Tail(src))

\* a Whitespace token after every token
RECURSIVE Spaced(_)
Spaced(toks) ==
    IF toks = <<>> THEN <<>> ELSE <<toks[1], TkWhitespace>> \o Spaced(Tail(toks))

\* offsets in sequence order, and the EndOfFile token that ends the sequence
Finish(toks) ==
    [i \in 1..Len(toks) + 1 |->
        IF i <= Len(toks) THEN [toks[i] EXCEPT !.offset = i - 1]
        ELSE end_of_file(Len(toks))]

\* no Whitespace token, one, or three of them after every token
SpacingModes == {"none", "single", "triple"}

TokensOf(src, spacing) ==
    LET toks == Flatten(src) IN
    Finish(IF spacing = "none" THEN toks
           ELSE IF spacing = "single" THEN Spaced(toks)
           ELSE Spaced(Spaced(toks)))

\* a token sequence without the EndOfFile token that has to end it
WithoutEof(tokens) == SubSeq(tokens, 1, Len(tokens) - 1)

(***************************************************************************)
(* Parser::parse_program, one action per step of its loop.                 *)
(*   pc = "start": parse_program was called with parser.tokens             *)
(*   pc = "loop" : at the while condition                                  *)
(*   pc = "step" : after statements.push, before parser.step()             *)
(*   pc = "done" : returned (result), pc = "panic": an assertion failed    *)
(***************************************************************************)
InitParser ==
    /\ lexer = lexer_new(<<>>)
    /\ returned = <<>>
    /\ source \in Sources
    /\ \E spacing \in SpacingModes, ended \in BOOLEAN :
          parser = [tokens |-> IF ended THEN TokensOf(source, spacing)
                               ELSE WithoutEof(TokensOf(source, spacing)),
                    position |-> 0, read_position |-> 0]
    /\ statements = <<>>
    /\ result = NoResult
    /\ pc = "start"
    /\ dispatched = "none"
    /\ located = NoLookup

\* let mut parser = Parser::new(tokens); let mut statements = vec![];
ParserNew ==
    /\ pc = "start"
    /\ IF new_asserts(parser.tokens)
       THEN /\ parser' = parser_new(parser.tokens)
            /\ pc' = "loop"
       ELSE /\ parser' = parser
            /\ pc' = "panic"
    /\ statements' = <<>>
    /\ UNCHANGED <<lexer, returned, result, dispatched, source, located>>

\* the loop body up to the match: parser.next_stmt()
NextStmt ==
    /\ pc = "loop"
    /\ token(parser).kind # "EndOfFile"
    /\ LET r == next_stmt(parser) IN
       /\ parser' = r.px
       /\ dispatched' = r.rule
       /\ IF r.panic
          THEN /\ pc' = "panic"
               /\ UNCHANGED <<statements, result>>
          ELSE IF r.ok
          THEN /\ statements' = Append(statements, r.stmt)
               /\ pc' = "step"
               /\ UNCHANGED result
          ELSE /\ result' = [status |-> "Err", message |-> r.message, got |-> r.got]
               /\ pc' = "done"
               /\ UNCHANGED statements
    /\ UNCHANGED <<lexer, returned, source, located>>

\* parser.step() at the end of the loop body
LoopStep ==
    /\ pc = "step"
    /\ parser' = parser_step(parser)
    /\ pc' = "loop"
    /\ UNCHANGED <<lexer, returned, statements, result, dispatched, source, located>>

\* Ok(Program { statements })
ReturnProgram ==
    /\ pc = "loop"
    /\ token(parser).kind = "EndOfFile"
    /\ result' = [status |-> "Ok", statements |-> statements]
    /\ pc' = "done"
    /\ UNCHANGED <<lexer, returned, parser, statements, dispatched, source, located>>

NextP == ParserNew \/ NextStmt \/ LoopStep \/ ReturnProgram

SpecP == InitParser /\ [][NextP]_vars

(***************************************************************************)
(* The pipeline: the source text is lexed with next_token up to and        *)
(* including the first EndOfFile token, and the tokens are parsed.         *)
(***************************************************************************)
InitE == InitLexer(Inputs)

\* one next_token call of the tokenizing loop
Tokenize ==
    /\ pc = "lexing"
    /\ \A i \in 1..Len(returned) : returned[i].kind # "EndOfFile"
    /\ LexStep
    /\ UNCHANGED <<parser, statements, result, pc, dispatched, source, located>>

\* the token sequence is passed to Parser::parse_program
Handoff ==
    /\ pc = "lexing"
    /\ returned # <<>>
    /\ returned[Len(returned)].kind = "EndOfFile"
    /\ parser' = [tokens |-> returned, position |-> 0, read_position |-> 0]
    /\ pc' = "start"
    /\ UNCHANGED <<lexer, returned, statements, result, dispatched, source, located>>

\* Parser::parse_program as a function of the token sequence: the loop from
\* parser p with the statements pushed so far
RECURSIVE program_loop(_, _)
program_loop(p, stmts) ==
    IF token(p).kind = "EndOfFile"
    THEN [status |-> "Ok", statements |-> stmts]
    ELSE LET r == next_stmt(p) IN
         IF r.panic THEN [status |-> "Panic"]
         ELSE IF r.ok THEN program_loop(parser_step(r.px), Append(stmts, r.stmt))
         ELSE [status |-> "Err", message |-> r.message, got |-> r.got]

parse_program(tokens) ==
    IF ~new_asserts(tokens) THEN [status |-> "Panic"]
    ELSE program_loop(parser_new(tokens), <<>>)

\* the whole parse_program call
Parse ==
    /\ pc = "start"
    /\ result' = parse_program(parser.tokens)
    /\ statements' = IF result'.status = "Ok" THEN result'.statements ELSE <<>>
    /\ pc' = "done"
    /\ UNCHANGED <<lexer, returned, parser, dispatched, source, located>>

NextE == Tokenize \/ Handoff \/ Parse

SpecE == InitE /\ [][NextE]_vars

(***************************************************************************)
(* Vocabulary of the properties.                                           *)
(***************************************************************************)
IsEof(t) == t.kind = "EndOfFile"

EofReturned == \E i \in 1..Len(returned) : IsEof(returned[i])

\* the tokens returned before the first EndOfFile token
BeforeEof ==
    LET eofs == {i \in 1..Len(returned) : IsEof(returned[i])} IN
    IF eofs = {} THEN returned
    ELSE SubSeq(returned, 1, (CHOOSE i \in eofs : \A j \in eofs : i <= j) - 1)

HasNul(input) == \E i \in 1..Len(input) : input[i] = NUL

RECURSIVE ConcatText(_)
ConcatText(toks) ==
    IF toks = <<>> THEN <<>> ELSE toks[1].text \o ConcatText(Tail(toks))

\* the bytes of the source a token stands for: its text, plus the two quotes
\* of a String token and the newline consumed after a Comment token
SourceSpan(t) ==
    IF t.kind = "String" THEN <<QUOTE>> \o t.text \o <<QUOTE>>
    ELSE IF t.kind = "Comment" THEN t.text \o <<NEWLINE>>
    ELSE t.text

RECURSIVE ConcatSpans(_)
ConcatSpans(toks) ==
    IF toks = <<>> THEN <<>> ELSE SourceSpan(toks[1]) \o ConcatSpans(Tail(toks))

\* this step is a next_token call that returned a token other than EndOfFile
NonEofCall ==
    /\ Len(returned') = Len(returned) + 1
    /\ ~IsEof(returned'[Len(returned')])

\* bytes still to be lexed: those from read_position on, and the current byte
\* unless it is the 0 sentinel
Remaining(l) ==
    Len(l.input) - l.read_position + (IF l.byte # NUL THEN 1 ELSE 0)

(***************************************************************************)
(* C1.  Once next_token has returned EndOfFile, every later call returns   *)
(* EndOfFile too: no other token follows an EndOfFile token.               *)
(* Refuted by a NUL byte inside the input: read_token takes the byte 0 for *)
(* the end of input, next_token steps over it and lexing goes on.          *)
(***************************************************************************)
C1_EofIsFinal ==
    \A i \in 1..Len(returned) - 1 :
        IsEof(returned[i]) => IsEof(returned[i + 1])

(***************************************************************************)
(* C2.  Lexing ends: EndOfFile is returned after finitely many calls, and  *)
(* every call that returns another token makes progress.                   *)
(* As claimed (the cursor is strictly further after such a call): refuted  *)
(* by the call that returns a one-byte token ending the input, which       *)
(* leaves position and read_position where they were.                      *)
(***************************************************************************)
C2_CursorStrictlyFurther ==
    [][NonEofCall =>
          \/ lexer'.position > lexer.position
          \/ lexer'.read_position > lexer.read_position]_vars

\* C2 as amended: EndOfFile is returned within Len(input) + 1 calls; a call
\* that returns another token never moves position or read_position backwards
\* and strictly reduces the bytes still to be lexed; read_position stays put
\* only when the token ends the input, and then the current byte becomes the
\* 0 sentinel.
C2_Progress ==
    /\ [][NonEofCall =>
            /\ lexer'.position >= lexer.position
            /\ lexer'.read_position >= lexer.read_position
            /\ Remaining(lexer') < Remaining(lexer)
            /\ \/ lexer'.read_position > lexer.read_position
               \/ /\ lexer'.read_position = Len(lexer.input)
                  /\ lexer'.byte = NUL]_vars
    /\ [](Len(returned) > Len(lexer.input) => EofReturned)

\* EndOfFile was returned after an unterminated string made maybe_read_string
\* rewind with reset and the text came out as an Unknown token
C2_Witness ==
    /\ Len(returned) >= 3
    /\ IsEof(returned[Len(returned)])
    /\ \E i \in 1..Len(returned) :
          /\ returned[i].kind = "Unknown"
          /\ returned[i].text # <<>>
          /\ returned[i].text[1] = QUOTE
          /\ returned[i].offset > 0

(***************************************************************************)
(* C3.  Round trip: the texts of the tokens returned before EndOfFile,     *)
(* concatenated, are the input.  Stated for inputs without a NUL byte;     *)
(* refuted by a string literal (the quotes are not in the token text) and  *)
(* by a comment (the newline after it is consumed and in no token).        *)
(***************************************************************************)
C3_RoundTrip ==
    (EofReturned /\ ~HasNul(lexer.input)) => ConcatText(BeforeEof) = lexer.input

\* C3 as amended: the source spans of the tokens returned before the first
\* EndOfFile token (the text; for a String token with its two quotes, for a
\* Comment token with the newline after it) concatenate to the input read so
\* far, and when EndOfFile is returned that is the whole input or the input
\* up to a NUL byte.
C3_RoundTripSpans ==
    LET c == ConcatSpans(BeforeEof) IN
    /\ Len(c) <= Len(lexer.input)
    /\ c = SubSeq(lexer.input, 1, Len(c))
    /\ EofReturned =>
          \/ Len(c) = Len(lexer.input)
          \/ lexer.input[Len(c) + 1] = NUL

\* a String token and then EndOfFile at the real end of a NUL-free input
C3_Witness ==
    /\ EofReturned
    /\ ~HasNul(lexer.input)
    /\ Len(lexer.input) > 0
    /\ \E i \in 1..Len(BeforeEof) : BeforeEof[i].kind = "String"
    /\ \E i \in 1..Len(BeforeEof) : BeforeEof[i].kind \notin {"String", "Unknown"}

(***************************************************************************)
(* Vocabulary of the parser properties.                                    *)
(***************************************************************************)
\* the tokens from 0-based index i on that are neither Whitespace nor EndOfFile
RECURSIVE Significant(_, _)
Significant(toks, i) ==
    IF i >= Len(toks) THEN <<>>
    ELSE IF toks[i + 1].kind \in {"Whitespace", "EndOfFile"}
         THEN Significant(toks, i + 1)
         ELSE <<toks[i + 1]>> \o Significant(toks, i + 1)

\* the kinds of the tokens from 0-based index i on, Whitespace left out
RECURSIVE KindsFrom(_, _)
KindsFrom(toks, i) ==
    IF i >= Len(toks) THEN <<>>
    ELSE IF toks[i + 1].kind = "Whitespace" THEN KindsFrom(toks, i + 1)
         ELSE <<toks[i + 1].kind>> \o KindsFrom(toks, i + 1)

\* tokens a statement of the grammar is made of
StatementTokens(stmt) ==
    IF stmt.node = "Let" THEN (IF stmt.mutable THEN 8 ELSE 7)
    ELSE IF stmt.node = "Expression" THEN 4
    ELSE 7

RECURSIVE TokensMatched(_)
TokensMatched(stmts) ==
    IF stmts = <<>> THEN 0 ELSE StatementTokens(stmts[1]) + TokensMatched(Tail(stmts))

\* the token sequence is made of well-formed statements only
AllWellFormed == \A i \in 1..Len(source) : source[i] \in WellFormedPieces

\* let [mut] identifier : int32 = (integer | identifier), not followed by ';',
\* at the parser's cursor
LetWithoutSemicolon(p) ==
    LET ks == KindsFrom(p.tokens, p.position)
        m == IF Len(ks) >= 2 /\ ks[2] = "Mut" THEN 1 ELSE 0
    IN  /\ Len(ks) >= 7 + m
        /\ ks[1] = "Let"
        /\ ks[2 + m] = "Identifier"
        /\ ks[3 + m] = "Colon"
        /\ ks[4 + m] = "Int32"
        /\ ks[5 + m] = "EqualSign"
        /\ ks[6 + m] \in {"IntegerLiteral", "Identifier"}
        /\ ks[7 + m] # "Semicolon"

(***************************************************************************)
(* C4.  A token sequence of k well-formed statements and EndOfFile parses  *)
(* to a Program of exactly those k statements, in order.                   *)
(* Refuted for k = 2: after a statement, next_stmt and parse_program each  *)
(* call step once more, so the first two tokens of the next statement are  *)
(* skipped.                                                                *)
(***************************************************************************)
C4_ProgramOfAllStatements ==
    (pc = "done" /\ AllWellFormed) =>
        /\ result.status = "Ok"
        /\ result.statements = [i \in 1..Len(source) |-> source[i].ast]

(***************************************************************************)
(* C5.  A Program is returned only if every token before EndOfFile, other  *)
(* than Whitespace, was matched as part of a statement: the tokens of the  *)
(* returned statements are all the tokens there are.                       *)
(* Refuted by a stray token after a statement: the extra step calls skip   *)
(* it and the Program is returned.                                         *)
(***************************************************************************)
C5_NoTokenSkipped ==
    (pc = "done" /\ result.status = "Ok") =>
        TokensMatched(result.statements) = Len(Significant(parser.tokens, 0))

(***************************************************************************)
(* C6.  Backtracking: when try_parse_let_stmt, try_parse_binary_expression *)
(* or try_parse_function returns an error, position and read_position are *)
(* what they were when the rule was entered.                               *)
(***************************************************************************)
C6_Backtracking ==
    [][(pc = "loop" /\ pc' = "done" /\ result'.status = "Err"
            /\ dispatched' \in {"let", "binary", "function"}) =>
          /\ parser'.position = parser.position
          /\ parser'.read_position = parser.read_position]_vars

\* the function rule failed at its return type, five tokens into the rule
C6_Witness ==
    /\ pc = "done"
    /\ result.status = "Err"
    /\ dispatched = "function"
    /\ result.message = "Expected 'int32', got "
    /\ KindsFrom(parser.tokens, parser.position)[6] = "Int64"
    /\ token(parser).kind = "Fn"

(***************************************************************************)
(* C7.  A let statement that matches up to and including its initializer   *)
(* and is not followed by a Semicolon makes parse_program return the error *)
(* "Expected semicolon at end of statement..."; no statement is appended   *)
(* and no Program is returned.                                             *)
(***************************************************************************)
C7_MissingSemicolon ==
    [][(pc = "loop" /\ LetWithoutSemicolon(parser)) =>
          /\ pc' = "done"
          /\ result'.status = "Err"
          /\ result'.message = "Expected semicolon at end of statement, got "
          /\ statements' = statements]_vars

\* the tokens of "let x: int32 = 4" and EndOfFile were refused
C7_Witness ==
    /\ pc = "done"
    /\ KindsFrom(parser.tokens, 0) =
          <<"Let", "Identifier", "Colon", "Int32", "EqualSign", "IntegerLiteral",
            "EndOfFile">>
    /\ result.status = "Err"
    /\ result.message = "Expected semicolon at end of statement, got "
    /\ statements = <<>>

(***************************************************************************)
(* C8.  End to end: the texts "fn five() -> int32;", "let mut x: int32 =   *)
(* y;" and "2 + 4;", lexed with next_token up to EndOfFile and parsed,     *)
(* give a Program of exactly one statement of the matching shape.          *)
(* Refuted: maybe_read_symbol has no case for ';', which is lexed as an    *)
(* Unknown token, so every rule fails at its semicolon check.              *)
(***************************************************************************)
C8_EndToEnd ==
    pc = "done" =>
        /\ lexer.input = FnFive =>
              result = [status |-> "Ok", statements |-> <<FnPiece(TkFive).ast>>]
        /\ lexer.input = LetMutXY =>
              result = [status |-> "Ok",
                        statements |-> <<LetPiece(TRUE, TkX, TkY).ast>>]
        /\ lexer.input = TwoPlusFour =>
              result = [status |-> "Ok",
                        statements |-> <<BinPiece(Tk2, TkPlus, Tk4).ast>>]

(***************************************************************************)
(* C9.  The EndOfFile token has empty text and its offset is the length of *)
(* the source.  Stated for inputs without a NUL byte; refuted by every     *)
(* such input that is not empty: step leaves position on the last byte     *)
(* when the input is exhausted, and read_token passes position.            *)
(***************************************************************************)
C9_EofAtLength ==
    ~HasNul(lexer.input) =>
        \A i \in 1..Len(returned) :
            IsEof(returned[i]) =>
                /\ returned[i].text = <<>>
                /\ returned[i].offset = Len(lexer.input)

(***************************************************************************)
(* C10.  Keyword/identifier boundary.  A token of a keyword kind covers    *)
(* the whole maximal run of ASCII alphanumerics and underscores it starts, *)
(* and a run that starts with an ASCII letter and is not a keyword-table   *)
(* entry is one Identifier token covering the run.                         *)
(* Refuted by a keyword followed by an underscore: maybe_read_keyword      *)
(* scans alphanumerics only and emits the keyword.                         *)
(***************************************************************************)
\* the maximal run of ASCII alphanumerics and underscores from 0-based offset o
RECURSIVE IdentifierRun(_, _)
IdentifierRun(input, o) ==
    IF o < Len(input) /\ (is_ascii_alphanumeric(input[o + 1]) \/ input[o + 1] = 95)
    THEN <<input[o + 1]>> \o IdentifierRun(input, o + 1)
    ELSE <<>>

C10_KeywordBoundary ==
    \A i \in 1..Len(returned) :
        LET t == returned[i]
            run == IdentifierRun(lexer.input, t.offset)
        IN  /\ t.kind \in KeywordKinds => t.text = run
            /\ (t.kind \in KeywordKinds \cup {"Identifier"} /\ ~is_keyword(run)) =>
                   (t.kind = "Identifier" /\ t.text = run)

(***************************************************************************)
(* Vocabulary of the row and column properties.                            *)
(***************************************************************************)
\* newline bytes strictly before 0-based offset o
NewlinesBefore(input, o) == Cardinality({j \in 1..o : input[j] = NEWLINE})

\* 0-based offset of the first byte of the line that holds offset o: the byte
\* after the most recent newline before o, or the start of the input
LineStart(input, o) ==
    LET nls == {j \in 1..o : input[j] = NEWLINE} IN
    IF nls = {} THEN 0 ELSE CHOOSE j \in nls : \A k \in nls : k <= j

\* the token ends with a newline byte: the lexer's cursor is behind a newline
\* after it returned the token
EndsLine(t) ==
    \/ t.kind = "Whitespace" /\ t.text[Len(t.text)] = NEWLINE
    \/ t.kind = "Comment"

\* 0-based offset of the newline byte that ends token t
LineEnd(t) ==
    IF t.kind = "Comment" THEN t.offset + Len(t.text) ELSE t.offset + Len(t.text) - 1

\* the located token is the one returned right after returned[i]
LocatedAfter(i) ==
    /\ i + 1 <= Len(returned)
    /\ returned[i + 1] = located.token

\* the lookup gave the row and column that the token's offset stands for
RowColumnOfOffset ==
    LET o == located.token.offset IN
    /\ located.row = 1 + NewlinesBefore(lexer.input, o)
    /\ located.column = 1 + (o - LineStart(lexer.input, o))
    /\ o = 0 => (located.row = 1 /\ located.column = 1)

(***************************************************************************)
(* C11.  Row and column: for a token other than EndOfFile that the lexer   *)
(* returned, get_row is 1 plus the newline bytes strictly before the       *)
(* token's offset and get_column is 1 plus the bytes between the most      *)
(* recent newline (or the start of the input) and the offset; the first    *)
(* token after a newline is at column 1 of the next row.                   *)
(* As claimed: refuted by a String token that opens a line; its offset is  *)
(* that of its text, one byte after the opening quote, so it is at column  *)
(* 2.                                                                      *)
(***************************************************************************)
C11_FirstTokenOfRowAtColumn1 ==
    located.status = "Ok" =>
        /\ RowColumnOfOffset
        /\ \A i \in 1..Len(returned) :
              (EndsLine(returned[i]) /\ LocatedAfter(i)) =>
                  /\ located.column = 1
                  /\ located.row =
                        2 + NewlinesBefore(lexer.input, LineEnd(returned[i]))

\* C11 as amended: row and column are those of the token's offset; a token
\* whose offset directly follows a newline byte is at column 1 of the row
\* after that newline's; the first token after a newline is at column 1 of
\* the next row unless it is a String token, which is at column 2 (its
\* offset is the byte after the opening quote).
C11_RowColumn ==
    located.status = "Ok" =>
        LET o == located.token.offset IN
        /\ RowColumnOfOffset
        /\ (o > 0 /\ lexer.input[o] = NEWLINE) =>
              /\ located.column = 1
              /\ located.row = 2 + NewlinesBefore(lexer.input, o - 1)
        /\ \A i \in 1..Len(returned) :
              (EndsLine(returned[i]) /\ LocatedAfter(i)) =>
                  /\ located.column =
                        IF located.token.kind = "String" THEN 2 ELSE 1
                  /\ located.row =
                        2 + NewlinesBefore(lexer.input, LineEnd(returned[i]))

\* the lookup of a String token that opens the second row
C11_Witness ==
    /\ located.status = "Ok"
    /\ located.token.kind = "String"
    /\ located.row = 2
    /\ located.column = 2
    /\ \E i \in 1..Len(returned) : EndsLine(returned[i]) /\ LocatedAfter(i)

(***************************************************************************)
(* Vocabulary of the string and comment properties.                        *)
(***************************************************************************)
\* this step is a next_token call
NextTokenCall == Len(returned') = Len(returned) + 1

\* the token the next_token call of this step returned
ReturnedToken == returned'[Len(returned')]

\* 1-based indices of the bytes equal to b behind the byte under the cursor
Later(l, b) == {j \in l.position + 2..Len(l.input) : l.input[j] = b}

\* the least element of a non-empty set of numbers
Least(S) == CHOOSE j \in S : \A k \in S : j <= k

(***************************************************************************)
(* C12.  String literals: a next_token call with the cursor on '"' returns *)
(* a String token whose text is the bytes between that quote and the first *)
(* quote after it (possibly none) when there is such a quote, and an       *)
(* Unknown token that starts at the opening quote when there is none.      *)
(* Refuted by the empty literal: the loop of maybe_read_string tests the   *)
(* bytes from the second one after the opening quote on, so the quote that *)
(* directly follows the opening one is never taken for the closing one.    *)
(***************************************************************************)
C12_StringLiteral ==
    [][(NextTokenCall /\ char(lexer) = QUOTE) =>
          LET closing == Later(lexer, QUOTE) IN
          IF closing # {}
          THEN /\ ReturnedToken.kind = "String"
               /\ ReturnedToken.text =
                      SubSeq(lexer.input, lexer.position + 2, Least(closing) - 1)
               /\ \A j \in 1..Len(ReturnedToken.text) :
                      ReturnedToken.text[j] # QUOTE
          ELSE /\ ReturnedToken.kind = "Unknown"
               /\ ReturnedToken.offset = lexer.position]_vars

(***************************************************************************)
(* C13.  Comments: a next_token call with the cursor on '#' returns, when  *)
(* a newline occurs later in the input, a Comment token whose text runs    *)
(* from the '#' up to but excluding that newline, and leaves the cursor    *)
(* behind the newline; when no newline occurs, it returns an Unknown token *)
(* whose text runs from the '#' to the end of the input.                   *)
(* Refuted by a NUL byte behind the '#' (the byte 0 is taken for the end   *)
(* of input, as in C1): the comment rule gives up although a newline       *)
(* follows, and the Unknown token ends at the NUL byte.                    *)
(***************************************************************************)
C13_Comment ==
    [][(NextTokenCall /\ char(lexer) = HASH) =>
          LET newlines == Later(lexer, NEWLINE)
              n == Len(lexer.input)
          IN  IF newlines # {}
              THEN LET nl == Least(newlines) IN
                   /\ ReturnedToken.kind = "Comment"
                   /\ ReturnedToken.offset = lexer.position
                   /\ ReturnedToken.text =
                          SubSeq(lexer.input, lexer.position + 1, nl - 1)
                   /\ IF nl < n
                      THEN lexer'.position = nl /\ lexer'.byte = lexer.input[nl + 1]
                      ELSE lexer'.byte = NUL
              ELSE /\ ReturnedToken.kind = "Unknown"
                   /\ ReturnedToken.offset = lexer.position
                   /\ ReturnedToken.text =
                          SubSeq(lexer.input, lexer.position + 1, n)]_vars

(***************************************************************************)
(* C14.  Parser precondition: parse_program called with an empty token     *)
(* sequence, or with one whose last token is not EndOfFile, stops with a   *)
(* failed assertion before any statement is parsed; it returns neither an  *)
(* error nor a Program.                                                    *)
(***************************************************************************)
\* the token sequence ends with an EndOfFile token
EndsWithEof(tokens) == tokens # <<>> /\ IsEof(tokens[Len(tokens)])

C14_Precondition ==
    ~EndsWithEof(parser.tokens) =>
        /\ pc \in {"start", "panic"}
        /\ dispatched = "none"
        /\ statements = <<>>
        /\ result = NoResult
        /\ parser.position = 0 /\ parser.read_position = 0

\* the assertion failed for the tokens of a whole let statement with no
\* EndOfFile token behind them
C14_Witness ==
    /\ pc = "panic"
    /\ Len(parser.tokens) >= 7
    /\ parser.tokens[1].kind = "Let"
    /\ parser.tokens[Len(parser.tokens)].kind = "Semicolon"
    /\ result = NoResult

(***************************************************************************)
(* C15.  Type restriction: the token after ':' in a let statement and the  *)
(* token after '->' in a function declaration has to be the Int32 keyword; *)
(* with any other token there (the other type keywords included) the rule  *)
(* fails with an error and no statement is produced.  A function           *)
(* declaration whose '(' is not directly followed by ')' fails too.        *)
(***************************************************************************)
\* at the parser's cursor: let [mut] identifier ':' and a token other than Int32
LetWithOtherType(p) ==
    LET ks == KindsFrom(p.tokens, p.position)
        m == IF Len(ks) >= 2 /\ ks[2] = "Mut" THEN 1 ELSE 0
    IN  /\ Len(ks) >= 4 + m
        /\ ks[1] = "Let"
        /\ ks[2 + m] = "Identifier"
        /\ ks[3 + m] = "Colon"
        /\ ks[4 + m] # "Int32"

\* at the parser's cursor: fn identifier '(' ')' '->' and a token other than Int32
FnWithOtherType(p) ==
    LET ks == KindsFrom(p.tokens, p.position) IN
    /\ Len(ks) >= 6
    /\ SubSeq(ks, 1, 5) =
          <<"Fn", "Identifier", "LeftParenthesis", "RightParenthesis", "Arrow">>
    /\ ks[6] # "Int32"

\* at the parser's cursor: fn identifier '(' and a token other than ')'
FnWithParameter(p) ==
    LET ks == KindsFrom(p.tokens, p.position) IN
    /\ Len(ks) >= 4
    /\ SubSeq(ks, 1, 3) = <<"Fn", "Identifier", "LeftParenthesis">>
    /\ ks[4] # "RightParenthesis"

C15_TypeRestriction ==
    [][(pc = "loop"
            /\ (LetWithOtherType(parser) \/ FnWithOtherType(parser)
                \/ FnWithParameter(parser))) =>
          /\ pc' = "done"
          /\ result'.status = "Err"
          /\ result'.message =
                IF LetWithOtherType(parser) THEN "Expected type, got "
                ELSE IF FnWithOtherType(parser) THEN "Expected 'int32', got "
                ELSE "Expected ')', got "
          /\ statements' = statements]_vars

\* the function rule refused the return type bfloat16
C15_Witness ==
    /\ pc = "done"
    /\ result.status = "Err"
    /\ dispatched = "function"
    /\ result.message = "Expected 'int32', got "
    /\ KindsFrom(parser.tokens, parser.position)[6] = "BFloat16"
    /\ FnWithOtherType(parser)

(***************************************************************************)
(* C16.  A token sequence of an EndOfFile token alone, or of Whitespace    *)
(* tokens and then EndOfFile, makes parse_program return a Program with    *)
(* no statement; no rule is tried and no error is returned.                *)
(***************************************************************************)
\* Whitespace tokens, if any, and the EndOfFile token
BlankTokens(tokens) ==
    /\ EndsWithEof(tokens)
    /\ \A i \in 1..Len(tokens) - 1 : tokens[i].kind = "Whitespace"

C16_BlankProgram ==
    BlankTokens(parser.tokens) =>
        /\ pc \in {"start", "loop", "done"}
        /\ dispatched = "none"
        /\ statements = <<>>
        /\ pc = "loop" => IsEof(token(parser))
        /\ pc = "done" => result = [status |-> "Ok", statements |-> <<>>]

\* the empty Program was returned for several Whitespace tokens and EndOfFile
C16_Witness ==
    /\ pc = "done"
    /\ BlankTokens(parser.tokens)
    /\ Len(parser.tokens) >= 3
    /\ result = [status |-> "Ok", statements |-> <<>>]

(***************************************************************************)
(* Vocabulary of the grammar: what each rule expects, token by token.      *)
(***************************************************************************)
\* the tokens from 0-based index i on, Whitespace left out
RECURSIVE TokensFrom(_, _)
TokensFrom(toks, i) ==
    IF i >= Len(toks) THEN <<>>
    ELSE IF toks[i + 1].kind = "Whitespace" THEN TokensFrom(toks, i + 1)
         ELSE <<toks[i + 1]>> \o TokensFrom(toks, i + 1)

OperandKinds == {"Identifier", "IntegerLiteral"}

OperatorKinds == {"Plus", "Minus", "Star", "Divide"}

\* let [mut] identifier : int32 = (integer-literal | identifier) ;
LetPattern(mutable) ==
    <<{"Let"}>> \o (IF mutable THEN <<{"Mut"}>> ELSE <<>>)
        \o <<{"Identifier"}, {"Colon"}, {"Int32"}, {"EqualSign"}, OperandKinds,
             {"Semicolon"}>>

\* (identifier | integer-literal) operator (identifier | integer-literal) ;
BinaryPattern == <<OperandKinds, OperatorKinds, OperandKinds, {"Semicolon"}>>

\* fn identifier ( ) -> int32 ;
FunctionPattern ==
    <<{"Fn"}, {"Identifier"}, {"LeftParenthesis"}, {"RightParenthesis"}, {"Arrow"},
      {"Int32"}, {"Semicolon"}>>

\* the pattern of the rule that the first of the tokens ts selects
PatternOf(ts) ==
    IF ts[1].kind = "Let" THEN LetPattern(Len(ts) >= 2 /\ ts[2].kind = "Mut")
    ELSE IF ts[1].kind = "Fn" THEN FunctionPattern
    ELSE BinaryPattern

\* the tokens ts match the pattern up to its n-th element
MatchesUpTo(ts, pattern, n) ==
    /\ n <= Len(ts)
    /\ \A i \in 1..n : ts[i].kind \in pattern[i]

\* the tokens at the parser's cursor are a whole statement of the grammar
StatementAt(p) ==
    LET ts == TokensFrom(p.tokens, p.position) IN
    /\ ts[1].kind \in {"Let", "Fn"} \cup OperandKinds
    /\ MatchesUpTo(ts, PatternOf(ts), Len(PatternOf(ts)))

\* the first of the tokens at the parser's cursor that its rule does not expect
MismatchToken(p) ==
    LET ts == TokensFrom(p.tokens, p.position)
        pattern == PatternOf(ts)
        n == CHOOSE i \in 1..Len(pattern) :
                 /\ MatchesUpTo(ts, pattern, i - 1)
                 /\ ~MatchesUpTo(ts, pattern, i)
    IN  ts[n]

(***************************************************************************)
(* C17.  When a grammar rule fails, the token in its error message is the  *)
(* token at which the mismatch was detected: the first token, from the     *)
(* rule's start, that the rule does not expect.                            *)
(* Refuted: the let rule formats the colon token when the type is wrong,   *)
(* and wherever a rule formats self.token() after self.reset(start) (the   *)
(* semicolon checks of all three rules, and the '(' ')' '->' and 'int32'   *)
(* checks of the function rule) the message names the first token of the   *)
(* statement.                                                              *)
(***************************************************************************)
C17_ErrorNamesMismatch ==
    [][(pc = "loop" /\ pc' = "done" /\ result'.status = "Err"
            /\ dispatched' \in {"let", "binary", "function"}) =>
          result'.got = MismatchToken(parser)]_vars

(***************************************************************************)
(* C18.  Let statement AST: for the tokens let [mut] identifier : int32 =  *)
(* (integer-literal | identifier) ; the rule gives a Let statement with    *)
(* mutable = TRUE exactly when Mut follows Let, the identifier token's     *)
(* text, the type name "int32", and an IntegerLiteral or Identifier        *)
(* expression, after the initializer token's kind, with its text.  Any     *)
(* other initializer token makes the rule fail.                            *)
(***************************************************************************)
\* the Let statement that the tokens ts of a let statement denote
LetOf(ts) ==
    LET m == IF ts[2].kind = "Mut" THEN 1 ELSE 0
        init == ts[6 + m]
    IN  [node |-> "Let",
         identifier |-> [node |-> "Identifier", name |-> ts[2 + m].text],
         mutable |-> (m = 1),
         ttype |-> [name |-> "int32"],
         expression |-> IF init.kind = "IntegerLiteral"
                        THEN [node |-> "IntegerLiteral", text |-> init.text]
                        ELSE [node |-> "Identifier", name |-> init.text]]

\* at the parser's cursor: let [mut] identifier : int32 = and a token that is
\* neither an integer literal nor an identifier
LetWithOtherInitializer(p) ==
    LET ts == TokensFrom(p.tokens, p.position)
        n == Len(PatternOf(ts)) - 2
    IN  /\ ts[1].kind = "Let"
        /\ MatchesUpTo(ts, PatternOf(ts), n)
        /\ ts[n + 1].kind \notin OperandKinds

C18_LetStatement ==
    [][(pc = "loop" /\ token(parser).kind = "Let") =>
          /\ StatementAt(parser) =>
                /\ pc' = "step"
                /\ statements' =
                       Append(statements,
                              LetOf(TokensFrom(parser.tokens, parser.position)))
          /\ LetWithOtherInitializer(parser) =>
                /\ pc' = "done"
                /\ result'.status = "Err"
                /\ result'.message = "Expected integer literal or identifier, got "
                /\ statements' = statements]_vars

\* "let mut x: int32 = y;" gave a mutable Let statement of x with the
\* Identifier expression y
C18_Witness ==
    /\ pc = "step"
    /\ Len(statements) = 1
    /\ statements[1].node = "Let"
    /\ statements[1].mutable
    /\ statements[1].identifier.name = <<120>>
    /\ statements[1].expression = [node |-> "Identifier", name |-> <<121>>]

(***************************************************************************)
(* C19.  Binary expression statement: for the tokens                       *)
(* (identifier | integer-literal) op (identifier | integer-literal) ; with *)
(* op one of Plus, Minus, Star, Divide the rule gives an Expression        *)
(* statement of a BinaryExpression with the operator of that name and the  *)
(* two operands, in order, with the texts of their tokens.  A second       *)
(* operator behind the right operand makes the rule fail.                  *)
(***************************************************************************)
\* the expression that an operand token denotes
OperandOf(t) ==
    IF t.kind = "IntegerLiteral" THEN [node |-> "IntegerLiteral", text |-> t.text]
    ELSE [node |-> "Identifier", name |-> t.text]

\* the Expression statement that the tokens ts of a binary expression denote
BinaryOf(ts) ==
    [node |-> "Expression",
     expression |-> [node |-> "BinaryExpression", operator |-> ts[2].kind,
                     left |-> OperandOf(ts[1]), right |-> OperandOf(ts[3])]]

\* at the parser's cursor: operand operator operand and a second operator
OperatorChain(p) ==
    LET ts == TokensFrom(p.tokens, p.position) IN
    /\ MatchesUpTo(ts, BinaryPattern, 3)
    /\ ts[4].kind \in OperatorKinds

C19_BinaryExpression ==
    [][(pc = "loop" /\ token(parser).kind \in OperandKinds) =>
          /\ StatementAt(parser) =>
                /\ pc' = "step"
                /\ statements' =
                       Append(statements,
                              BinaryOf(TokensFrom(parser.tokens, parser.position)))
          /\ OperatorChain(parser) =>
                /\ pc' = "done"
                /\ result'.status = "Err"
                /\ result'.message =
                       "Expected semicolon at end of binary expression, got "
                /\ statements' = statements]_vars

\* "2 / y;" gave the Divide expression of the literal 2 and the identifier y
C19_Witness ==
    /\ pc = "step"
    /\ Len(statements) = 1
    /\ statements[1] =
          [node |-> "Expression",
           expression |-> [node |-> "BinaryExpression", operator |-> "Divide",
                           left |-> [node |-> "IntegerLiteral", text |-> <<50>>],
                           right |-> [node |-> "Identifier", name |-> <<121>>]]]

(***************************************************************************)
(* C20.  Whitespace insensitivity: Whitespace tokens before the final      *)
(* EndOfFile token change neither whether parse_program succeeds nor the   *)
(* Program it returns, and after a step the parser's current token is      *)
(* never a Whitespace token.                                               *)
(***************************************************************************)
\* the token sequence with its Whitespace tokens removed
RECURSIVE Unspaced(_)
Unspaced(toks) ==
    IF toks = <<>> THEN <<>>
    ELSE IF toks[1].kind = "Whitespace" THEN Unspaced(Tail(toks))
         ELSE <<toks[1]>> \o Unspaced(Tail(toks))

\* the parser on the given tokens with its cursor on 0-based position i
CursorAt(tokens, i) == [tokens |-> tokens, position |-> i, read_position |-> i + 1]

\* both results are errors, or both are the same Program
SameOutcome(r1, r2) ==
    /\ r1.status = r2.status
    /\ r1.status = "Ok" => r1.statements = r2.statements

C20_WhitespaceInsensitive ==
    EndsWithEof(parser.tokens) =>
        /\ pc \in {"loop", "step", "done"} => token(parser).kind # "Whitespace"
        /\ \A i \in 0..Len(parser.tokens) - 1 :
              token(parser_step(CursorAt(parser.tokens, i))).kind # "Whitespace"
        /\ pc = "done" =>
              SameOutcome(result, parse_program(Unspaced(parser.tokens)))

\* a Program of one statement was returned for tokens with a Whitespace token
\* before the statement, Whitespace tokens in a row inside it and one before
\* EndOfFile
C20_Witness ==
    /\ pc = "done"
    /\ result.status = "Ok"
    /\ Len(result.statements) = 1
    /\ parser.tokens[1].kind = "Whitespace"
    /\ parser.tokens[Len(parser.tokens) - 1].kind = "Whitespace"
    /\ \E i \in 3..Len(parser.tokens) - 3 :
          /\ parser.tokens[i].kind = "Whitespace"
          /\ parser.tokens[i + 1].kind = "Whitespace"

(***************************************************************************)
(* C21.  Comment tokens are not skipped by step: a Comment token between   *)
(* two tokens of a let, binary-expression or function-declaration          *)
(* statement makes the rule fail, and parse_program returns an error.      *)
(***************************************************************************)
\* the tokens ts without their n-th token
Without(ts, n) == SubSeq(ts, 1, n - 1) \o SubSeq(ts, n + 1, Len(ts))

\* at the parser's cursor: a statement of the grammar with one Comment token
\* between two of its tokens
CommentedStatementAt(p) ==
    LET ts == TokensFrom(p.tokens, p.position) IN
    /\ ts[1].kind \in {"Let", "Fn"} \cup OperandKinds
    /\ \E n \in 2..Len(ts) :
          /\ ts[n].kind = "Comment"
          /\ LET rest == Without(ts, n) IN
             /\ MatchesUpTo(rest, PatternOf(rest), Len(PatternOf(rest)))
             /\ n <= Len(PatternOf(rest))

\* the token sequence begins with such a statement
CommentedSource == Len(source) >= 1 /\ source[1] \in CommentedPieces

C21_CommentBreaksStatement ==
    /\ [][(pc = "loop" /\ CommentedStatementAt(parser)) =>
            /\ pc' = "done"
            /\ result'.status = "Err"
            /\ dispatched' \in {"let", "binary", "function"}
            /\ token(parser').kind # "Comment"
            /\ statements' = statements]_vars
    /\ []((pc = "done" /\ CommentedSource) =>
             (result.status = "Err" /\ statements = <<>>))

\* parse_program returned an error for "let mut x: int32 = y;" with a Comment
\* token between the initializer and the semicolon
C21_Witness ==
    /\ pc = "done"
    /\ result.status = "Err"
    /\ dispatched = "let"
    /\ result.message = "Expected semicolon at end of statement, got "
    /\ CommentedStatementAt(parser)
    /\ \E i \in 1..Len(parser.tokens) - 1 :
          /\ parser.tokens[i].kind = "Comment"
          /\ parser.tokens[i + 1].kind = "Semicolon"

(***************************************************************************)
(* C22.  Catch-all: the text of an Unknown token spans from its offset to  *)
(* the end of the input, so an Unknown token is the last token of the run  *)
(* and every later call returns EndOfFile.                                 *)
(* Refuted by a NUL byte behind the text that no rule matches (the byte 0  *)
(* is taken for the end of input, as in C1): the catch-all loop stops at   *)
(* the NUL byte and the bytes behind it are lexed as further tokens.       *)
(***************************************************************************)
C22_UnknownIsLast ==
    \A i \in 1..Len(returned) :
        returned[i].kind = "Unknown" =>
            /\ returned[i].text =
                   SubSeq(lexer.input, returned[i].offset + 1, Len(lexer.input))
            /\ \A j \in i + 1..Len(returned) : IsEof(returned[j])

(***************************************************************************)
(* C23.  Zero-copy slices: the text of every returned token is the input   *)
(* bytes input[offset .. offset + Len(text)], within the input; tokens     *)
(* other than EndOfFile have strictly increasing offsets and do not        *)
(* overlap; no slice the lexer takes is out of bounds, so no call panics,  *)
(* and the cursor stays within the input.                                  *)
(***************************************************************************)
\* the returned tokens other than EndOfFile, in order
RECURSIVE NonEof(_)
NonEof(toks) ==
    IF toks = <<>> THEN <<>>
    ELSE IF IsEof(toks[1]) THEN NonEof(Tail(toks))
         ELSE <<toks[1]>> \o NonEof(Tail(toks))

C23_ZeroCopySlices ==
    /\ lexer.position <= lexer.read_position
    /\ lexer.read_position <= Len(lexer.input)
    /\ \A i \in 1..Len(returned) :
          LET t == returned[i] IN
          /\ t.kind # "Panic"
          /\ t.offset + Len(t.text) <= Len(lexer.input)
          /\ t.text = SubSeq(lexer.input, t.offset + 1, t.offset + Len(t.text))
    /\ LET toks == NonEof(returned) IN
       \A i \in 1..Len(toks) - 1 :
          /\ toks[i].offset < toks[i + 1].offset
          /\ toks[i].offset + Len(toks[i].text) <= toks[i + 1].offset

\* a String token (its slice starts one byte behind the opening quote) was
\* returned behind another token, and then EndOfFile
C23_Witness ==
    /\ Len(returned) >= 3
    /\ IsEof(returned[Len(returned)])
    /\ \E i \in 2..Len(returned) - 1 :
          /\ returned[i].kind = "String"
          /\ returned[i].text # <<>>
          /\ lexer.input[returned[i].offset] = QUOTE
          /\ ~IsEof(returned[i - 1])

(***************************************************************************)
(* C24.  Arrow lookahead: a next_token call with the cursor on '-' returns *)
(* one Arrow token with the text "->" when the next byte is '>', and the   *)
(* following token starts behind the '>'; otherwise (another byte, or the  *)
(* end of the input) it returns a Minus token with the text "-", and the   *)
(* byte behind it is lexed on its own.                                     *)
(***************************************************************************)
\* after the call the cursor is on the byte at 0-based offset o, or the input
\* is exhausted when there is no such byte
CursorOn(o) ==
    IF o < Len(lexer.input)
    THEN /\ lexer'.position = o
         /\ lexer'.read_position = o + 1
         /\ lexer'.byte = lexer.input[o + 1]
    ELSE lexer'.byte = NUL

C24_ArrowLookahead ==
    [][(NextTokenCall /\ char(lexer) = 45) =>
          LET o == lexer.position IN
          IF o + 2 <= Len(lexer.input) /\ lexer.input[o + 2] = 62
          THEN /\ ReturnedToken = [kind |-> "Arrow", text |-> <<45, 62>>, offset |-> o]
               /\ CursorOn(o + 2)
          ELSE /\ ReturnedToken = [kind |-> "Minus", text |-> <<45>>, offset |-> o]
               /\ CursorOn(o + 1)]_vars

\* "->" was returned as one Arrow token, and the byte behind it as the next
\* token
C24_Witness ==
    \E i \in 1..Len(returned) - 1 :
        /\ returned[i].kind = "Arrow"
        /\ returned[i].text = <<45, 62>>
        /\ ~IsEof(returned[i + 1])
        /\ returned[i + 1].offset = returned[i].offset + 2

(***************************************************************************)
(* C25.  Parser cursor safety: for a token sequence that ends with         *)
(* EndOfFile, after new, step and reset the cursor satisfies position <    *)
(* Len(tokens) and read_position = position + 1, so token() never indexes  *)
(* out of bounds, and the assertions that open try_parse_let_stmt and      *)
(* try_parse_function never fail.                                          *)
(***************************************************************************)
\* token() is within the tokens, and read_position is one past position
CursorSafe(p) ==
    /\ 0 <= p.position
    /\ p.position < Len(p.tokens)
    /\ p.read_position = p.position + 1

C25_CursorSafety ==
    EndsWithEof(parser.tokens) =>
        /\ pc # "panic"
        /\ pc # "start" => CursorSafe(parser)
        /\ pc = "start" =>
              /\ CursorSafe(parser_new(parser.tokens))
              /\ \A i \in 0..Len(parser.tokens) - 1 :
                    LET p == CursorAt(parser.tokens, i)
                        last == CursorAt(parser.tokens, Len(parser.tokens) - 1)
                    IN  /\ CursorSafe(parser_step(p))
                        /\ CursorSafe(parser_reset(p, 0))
                        /\ CursorSafe(parser_reset(last, i))

\* the function rule was entered behind a Whitespace token, passed its
\* assertion, failed at the token behind '(' and reset the cursor to the Fn
\* token
C25_Witness ==
    /\ pc = "done"
    /\ result.status = "Err"
    /\ dispatched = "function"
    /\ result.message = "Expected ')', got "
    /\ parser.position > 0
    /\ token(parser).kind = "Fn"
    /\ CursorSafe(parser)


(***************************************************************************)
(* C26.  Parser termination: for a token sequence that ends with           *)
(* EndOfFile, parse_program ends with a Program or with an error.  An      *)
(* iteration of its loop returns the error of next_stmt, or leaves the     *)
(* cursor strictly further on, and the cursor never passes the last token: *)
(* the loop runs at most once per token, no step of parse_program panics,  *)
(* and a Program is returned with the cursor on an EndOfFile token.        *)
(***************************************************************************)
\* a step of the loop body: an error ends parse_program, a parsed statement
\* leaves the cursor further on, and the step behind it never moves it back
LoopProgress ==
    /\ pc = "loop" =>
          \/ pc' = "done" /\ result'.status = "Err" /\ ~IsEof(token(parser))
          \/ pc' = "done" /\ result'.status = "Ok" /\ IsEof(token(parser))
          \/ /\ pc' = "step"
             /\ parser'.position > parser.position
             /\ Len(statements') = Len(statements) + 1
    /\ pc = "step" =>
          /\ pc' = "loop"
          /\ parser'.position >= parser.position
          /\ statements' = statements

\* parse_program never panics, the statements parsed so far are no more than
\* the tokens behind the cursor, and the result is a Program or an error
LoopBounded ==
    /\ pc \in {"start", "loop", "step", "done"}
    /\ pc \in {"loop", "step"} =>
          /\ Len(statements) <= parser.position
          /\ parser.position < Len(parser.tokens)
    /\ pc = "done" =>
          /\ result.status \in {"Ok", "Err"}
          /\ result.status = "Ok" => IsEof(token(parser))

C26_Termination ==
    /\ [][EndsWithEof(parser.tokens) => LoopProgress]_vars
    /\ [](EndsWithEof(parser.tokens) => LoopBounded)

\* the loop ran twice and returned the Program with the cursor on the last
\* token, an EndOfFile token
C26_Witness ==
    /\ pc = "done"
    /\ EndsWithEof(parser.tokens)
    /\ result.status = "Ok"
    /\ Len(result.statements) = 2
    /\ parser.position = Len(parser.tokens) - 1
    /\ IsEof(token(parser))

====
